---- MODULE Spec2Model ----
(***************************************************************************)
(* Facility-electrification dashboard: the summary-statistics extraction   *)
(* (src/src/facilities_helper_summary_statistics.py) and the change log    *)
(* (src/src/facilities_helper_change_log.py).                              *)
(*                                                                         *)
(* Representation                                                          *)
(*   - a table (DataFrame) is a sequence of rows                           *)
(*       [date, status, type, n_facilities];                               *)
(*   - a date cell is the calendar text <<year, month, day>>; a parsed     *)
(*     date (Timestamp) is an integer that orders as the calendar does,    *)
(*     and NaT is the integer NaT; strftime("%Y-%m-%d") yields the text    *)
(*     <<year, month, day>> again, texts compare lexicographically;        *)
(*   - a float with k decimals is held as an integer count of 10^-k:       *)
(*     the summary's percent, rounded to 3 decimals, is held in            *)
(*     thousandths (150 stands for 0.15);                                  *)
(*   - a cell of the change log is <<v>> for the number v and <<>> for a   *)
(*     missing value (NaN / NA);                                           *)
(*   - a date cell already holding NaT is <<>>.                            *)
(***************************************************************************)
EXTENDS Integers, Sequences, FiniteSets, TLC

VARIABLES table, call, summary, change_log,
          date_dtype, first, summaries,
          session, page, rendered, source,
          metrics, totals

\* The state the repeated-call specification adds: the dtype of the table's
\* date column, a remembered earlier call, the last result of
\* extract_all_facility_summaries.
callsVars == <<date_dtype, first, summaries>>

\* The state of a browser session: st.session_state, the page the last script
\* run was for, what that run put on the page, and the data source.
homeVars == <<session, page, rendered, source>>

\* The table with the optional metric columns, and the totals computed last.
totalsVars == <<metrics, totals>>

vars == <<table, call, summary, change_log, callsVars, homeVars, totalsVars>>

(***************************************************************************)
(* Bounds and input domains                                                *)
(***************************************************************************)
MaxRows == 3

Counts == {1, 2}

DateCells == {<<2023, 12, 31>>, <<2024, 1, 1>>, <<2024, 2, 1>>}

FacilityTypeArgs == {"Total", "total", "School", "school", "Well"}

TargetValues == {0, 3, 16}

TargetKeys == {"School", "Total"}

\* The four canonical pipeline stages, in pipeline order.
status_order == <<"Under Design", "Tender launched", "Contract awarded", "Energized">>

\* st.session_state.targets as Home.py sets it.
HomeTargets ==
    [k \in {"Total", "School", "Clinic", "Well", "Vaccine"} |->
        CASE k = "Total" -> 700
          [] k = "School" -> 100
          [] k = "Clinic" -> 350
          [] k = "Well" -> 200
          [] k = "Vaccine" -> 50]

TargetMaps == UNION {[K -> TargetValues] : K \in SUBSET TargetKeys} \cup {HomeTargets}

(***************************************************************************)
(* Strings and dates                                                       *)
(***************************************************************************)
\* str.lower() on the labels the model uses.
Lower(s) ==
    CASE s = "Total" -> "total"
      [] s = "School" -> "school"
      [] s = "Clinic" -> "clinic"
      [] s = "Well" -> "well"
      [] s = "Vaccine" -> "vaccine"
      [] s = "Energized" -> "energized"
      [] OTHER -> s

\* str.title() on the labels the model uses.
Title(s) ==
    CASE s \in {"total", "Total"} -> "Total"
      [] s \in {"school", "School"} -> "School"
      [] s \in {"clinic", "Clinic"} -> "Clinic"
      [] s \in {"well", "Well"} -> "Well"
      [] s \in {"vaccine", "Vaccine"} -> "Vaccine"
      [] OTHER -> s

NaT == -1

\* Whether a date cell parses as a calendar date.
IsDate(c) == Len(c) = 3 /\ c[1] >= 1 /\ c[2] \in 1..12 /\ c[3] \in 1..31

\* pd.to_datetime(..., errors="coerce") on one cell.
ToDatetimeCoerce(c) ==
    IF IsDate(c) THEN (c[1] * 12 + (c[2] - 1)) * 31 + (c[3] - 1) ELSE NaT

\* Timestamp.strftime("%Y-%m-%d"): zero-padded year-month-day text.
Strftime(t) == <<t \div 372, ((t % 372) \div 31) + 1, (t % 31) + 1>>

\* Python's < on two "%Y-%m-%d" texts.
StrLess(a, b) ==
    \/ a[1] < b[1]
    \/ a[1] = b[1] /\ a[2] < b[2]
    \/ a[1] = b[1] /\ a[2] = b[2] /\ a[3] < b[3]

(***************************************************************************)
(* DataFrame helpers                                                       *)
(***************************************************************************)
RECURSIVE SumN(_)
\* Series.sum() of the n_facilities column.
SumN(df) == IF df = <<>> THEN 0 ELSE Head(df).n_facilities + SumN(Tail(df))

RECURSIVE SortedSeq(_)
\* sorted(...) / sort_index() of a set of timestamps, ascending.
SortedSeq(S) ==
    IF S = {} THEN <<>>
    ELSE LET m == CHOOSE x \in S : \A y \in S : x <= y
         IN  <<m>> \o SortedSeq(S \ {m})

\* pd.to_datetime(df["date"]) without errors="coerce" raises on a cell that is
\* neither a date nor already NaT.
ToDatetimeRaises(df) == \E i \in 1..Len(df) : df[i].date # <<>> /\ ~IsDate(df[i].date)

\* df["date"] = pd.to_datetime(df["date"]): the date column parsed.
ParseDates(df) ==
    [i \in 1..Len(df) |-> [df[i] EXCEPT !.date = ToDatetimeCoerce(df[i].date)]]

(***************************************************************************)
(* extract_facility_summary                                                *)
(***************************************************************************)
\* if facility_type.lower() != "total": df = df[df["type"].str.lower() == ...]
FilterByType(df, facility_type) ==
    IF Lower(facility_type) # "total"
    THEN SelectSeq(df, LAMBDA r : Lower(r.type) = Lower(facility_type))
    ELSE df

RECURSIVE SortedSeqDescending(_)
SortedSeqDescending(S) ==
    IF S = {} THEN <<>>
    ELSE LET m == CHOOSE x \in S : \A y \in S : y <= x
         IN  <<m>> \o SortedSeqDescending(S \ {m})

GroupedIndexDescending(df) ==
    SortedSeqDescending({df[i].date : i \in {j \in 1..Len(df) : df[j].date # NaT}})

\* The index of groupby(["date", "status"]).sum().unstack().sort_index(): the
\* distinct dates of the rows (NaT keys are dropped), ascending.
GroupedIndex(df) ==
    SortedSeq({df[i].date : i \in {j \in 1..Len(df) : df[j].date # NaT}})

\* The columns of the unstacked matrix: the statuses of the grouped rows.
GroupedColumns(df) ==
    {df[i].status : i \in {j \in 1..Len(df) : df[j].date # NaT}}

RECURSIVE LastN(_, _, _)
LastN(df, d, s) ==
    IF df = <<>> THEN 0
    ELSE LET r == df[Len(df)]
         IN  IF r.date = d /\ r.status = s THEN r.n_facilities
             ELSE LastN(SubSeq(df, 1, Len(df) - 1), d, s)

\* One cell of the matrix: the sum of n_facilities over the rows of the
\* (date, status) group, 0 for an absent group (unstack(fill_value=0)).
GroupedCell(df, d, s) ==
    SumN(SelectSeq(df, LAMBDA r : r.date = d /\ r.status = s))

EnergizedTrendScalarDefault(df) ==
    IF "Energized" \in GroupedColumns(df)
    THEN [i \in 1..Len(GroupedIndex(df)) |-> GroupedCell(df, GroupedIndex(df)[i], "Energized")]
    ELSE <<0>>

\* grouped.get("Energized", pd.Series([0]*len(grouped)))
EnergizedTrend(df) ==
    IF "Energized" \in GroupedColumns(df)
    THEN [i \in 1..Len(GroupedIndex(df)) |-> GroupedCell(df, GroupedIndex(df)[i], "Energized")]
    ELSE [i \in 1..Len(GroupedIndex(df)) |-> 0]

RECURSIVE SumColumns(_, _, _)
\* The sum over a set of columns of one row of the matrix.
SumColumns(df, d, cols) ==
    IF cols = {} THEN 0
    ELSE LET c == CHOOSE x \in cols : TRUE
         IN  GroupedCell(df, d, c) + SumColumns(df, d, cols \ {c})

NotEnergizedTrendCanonicalOnly(df) ==
    [i \in 1..Len(GroupedIndex(df)) |->
        SumColumns(df, GroupedIndex(df)[i],
                   (GroupedColumns(df) \ {"Energized"})
                       \cap {status_order[k] : k \in 1..Len(status_order)})]

\* grouped.drop(columns=["Energized"], errors="ignore").sum(axis=1)
NotEnergizedTrend(df) ==
    [i \in 1..Len(GroupedIndex(df)) |->
        SumColumns(df, GroupedIndex(df)[i], GroupedColumns(df) \ {"Energized"})]

TargetLookupNoFallback(targets, facility_type) ==
    IF facility_type \in DOMAIN targets THEN targets[facility_type] ELSE 0

\* targets.get(facility_type, targets.get("Total", 0))
TargetLookup(targets, facility_type) ==
    IF facility_type \in DOMAIN targets THEN targets[facility_type]
    ELSE IF "Total" \in DOMAIN targets THEN targets["Total"]
    ELSE 0

\* trend.iloc[-1] if len(trend) else 0
LastOrZero(trend) == IF Len(trend) > 0 THEN trend[Len(trend)] ELSE 0

\* round(n / d, 0) for n >= 0, d > 0: to the nearest integer, a tie to the
\* even one (Python rounds the binary quotient, and a tie n/d = k + 1/2 in
\* thousandths is exact in binary whenever d's odd part divides n, which
\* holds for every tie the target values of the model produce).
RoundHalfEven(n, d) ==
    LET q == n \div d
        r == n % d
    IN  IF 2 * r < d THEN q
        ELSE IF 2 * r > d THEN q + 1
        ELSE IF q % 2 = 0 THEN q ELSE q + 1

PercentTruncated(energized, target) ==
    IF target > 0 THEN (1000 * energized) \div target ELSE 0

PercentMaxOne(energized, target) ==
    RoundHalfEven(1000 * energized, IF target > 1 THEN target ELSE 1)

\* round(energized / target if target > 0 else 0, 3), in thousandths.
Percent(energized, target) ==
    IF target > 0 THEN RoundHalfEven(1000 * energized, target) ELSE 0

IncreaseFromFirst(energized_trend) ==
    IF Len(energized_trend) > 1
    THEN energized_trend[Len(energized_trend)] - energized_trend[1]
    ELSE 0

\* energized_trend.iloc[-1] - energized_trend.iloc[-2] if len > 1 else 0
Increase(energized_trend) ==
    IF Len(energized_trend) > 1
    THEN energized_trend[Len(energized_trend)] - energized_trend[Len(energized_trend) - 1]
    ELSE 0

\* The value extract_facility_summary(df, facility_type, targets) returns;
\* raised is TRUE when the call ends with an exception instead.
ExtractFacilitySummary(df, facility_type, targets) ==
    LET sliced == FilterByType(ParseDates(df), facility_type)
        energized_trend == EnergizedTrend(sliced)
        not_energized_trend == NotEnergizedTrend(sliced)
        dates == GroupedIndex(sliced)
        target == TargetLookup(targets, facility_type)
        energized == LastOrZero(energized_trend)
        not_energized == LastOrZero(not_energized_trend)
    IN  IF ToDatetimeRaises(df)
        THEN [raised |-> TRUE]
        ELSE [raised |-> FALSE,
              type |-> Title(facility_type),
              target |-> target,
              energized |-> energized,
              in_progress |-> not_energized,
              planned |-> energized + not_energized,
              percent |-> Percent(energized, target),
              increase |-> Increase(energized_trend),
              energized_trend |-> energized_trend,
              dates |-> [i \in 1..Len(dates) |-> Strftime(dates[i])]]

(***************************************************************************)
(* render_facility_change_log                                              *)
(***************************************************************************)
LoadFacilitySummaryKeepNaT(csv) == ParseDates(csv)

\* load_facility_summary(): read_csv, to_datetime(errors="coerce"), dropna.
LoadFacilitySummary(csv) == SelectSeq(ParseDates(csv), LAMBDA r : r.date # NaT)

\* sorted(df["date"].dropna().unique())
AvailableDates(df) == SortedSeq({df[i].date : i \in 1..Len(df)})

\* The index of df[df["date"] == d].groupby("status")["n_facilities"].sum().
StatusIndex(df, d) == {df[i].status : i \in {j \in 1..Len(df) : df[j].date = d}}

\* One value of that series.
StatusCount(df, d, s) == SumN(SelectSeq(df, LAMBDA r : r.date = d /\ r.status = s))

\* pd.concat([before, latest], axis=1).fillna(0): one column at one status of
\* the union index.
FilledCount(df, d, s) == IF s \in StatusIndex(df, d) THEN StatusCount(df, d, s) ELSE 0

\* The index of the concatenated frame.
ConcatIndex(df, date_before, date_latest) ==
    StatusIndex(df, date_before) \cup StatusIndex(df, date_latest)

\* Whether Previous.replace(0, pd.NA) replaced anything: the column then has
\* dtype object and .round(1) leaves it as it is (pandas 2.x; Series.round
\* skips non-numeric blocks).
PreviousHasZero(df, date_before, date_latest) ==
    \E s \in ConcatIndex(df, date_before, date_latest) : FilledCount(df, date_before, s) = 0

PctChangeZeroForNA(df, date_before, date_latest, s) ==
    LET previous == FilledCount(df, date_before, s)
        change == FilledCount(df, date_latest, s) - previous
    IN  IF previous = 0 THEN <<0, 1>>
        ELSE IF PreviousHasZero(df, date_before, date_latest)
             THEN <<100 * change, previous>>
             ELSE <<RoundHalfEven(1000 * change, previous), 10>>

\* (Change / Previous.replace(0, pd.NA) * 100).round(1) at one status, as the
\* fraction <<numerator, denominator>>; <<>> is NA.
PctChange(df, date_before, date_latest, s) ==
    LET previous == FilledCount(df, date_before, s)
        change == FilledCount(df, date_latest, s) - previous
    IN  IF previous = 0 THEN <<>>
        ELSE IF PreviousHasZero(df, date_before, date_latest)
             THEN <<100 * change, previous>>
             ELSE <<RoundHalfEven(1000 * change, previous), 10>>

\* One row of change_log before the reindex.
ChangeLogRow(df, date_before, date_latest, s) ==
    [status |-> s,
     Previous |-> <<FilledCount(df, date_before, s)>>,
     Current |-> <<FilledCount(df, date_latest, s)>>,
     Change |-> <<FilledCount(df, date_latest, s) - FilledCount(df, date_before, s)>>,
     PctChange |-> PctChange(df, date_before, date_latest, s)]

\* The row reindex adds for a label the frame does not hold: NaN in every column.
MissingRow(s) ==
    [status |-> s, Previous |-> <<>>, Current |-> <<>>, Change |-> <<>>, PctChange |-> <<>>]

RECURSIVE KeepPresent(_, _)
KeepPresent(order, index) ==
    IF order = <<>> THEN <<>>
    ELSE IF Head(order) \in index
         THEN <<Head(order)>> \o KeepPresent(Tail(order), index)
         ELSE KeepPresent(Tail(order), index)

ReindexPresentOnly(df, date_before, date_latest) ==
    LET kept == KeepPresent(status_order, ConcatIndex(df, date_before, date_latest))
    IN  [i \in 1..Len(kept) |-> ChangeLogRow(df, date_before, date_latest, kept[i])]

\* change_log.reindex(status_order): the rows of the four labels, in that
\* order; a label outside the index gets the missing row, a row whose label
\* is not in status_order is dropped.
Reindex(df, date_before, date_latest) ==
    [i \in 1..Len(status_order) |->
        IF status_order[i] \in ConcatIndex(df, date_before, date_latest)
        THEN ChangeLogRow(df, date_before, date_latest, status_order[i])
        ELSE MissingRow(status_order[i])]

(***************************************************************************)
(* Tables                                                                  *)
(***************************************************************************)
RECURSIVE SetToSeq(_)
SetToSeq(S) ==
    IF S = {} THEN <<>>
    ELSE LET x == CHOOSE y \in S : TRUE IN <<x>> \o SetToSeq(S \ {x})

\* Every table of at most n rows drawn from the set rows, one table per
\* multiset of rows: no modelled operation reads the order of the rows
\* (each one filters, groups and sums).
TablesOf(rows, n) ==
    LET all == SetToSeq(rows)
        NonDecreasing(ix) == \A i \in 1..(Len(ix) - 1) : ix[i] <= ix[i + 1]
    IN  {[i \in 1..Len(ix) |-> all[ix[i]]] :
            ix \in {jx \in UNION {[1..k -> 1..Len(all)] : k \in 0..n} : NonDecreasing(jx)}}

\* Rows of the tables the summary is extracted from: every School row,
\* Clinic rows for the type filter to exclude, and a row whose date the
\* caller has coerced to NaT (Home.py coerces the column before it calls).
SummaryRows ==
    [date : DateCells, status : {"Energized", "Under Design"},
     type : {"School"}, n_facilities : Counts]
    \cup [date : DateCells, status : {"Cancelled"}, type : {"School"}, n_facilities : {1}]
    \cup [date : DateCells, status : {"Energized"}, type : {"Clinic"}, n_facilities : {2}]
    \cup [date : {<<>>}, status : {"Energized"}, type : {"School"}, n_facilities : {2}]

\* A date cell of the data file that does not parse.
BadDateCell == <<0, 0, 0>>

\* Rows of the data file the change log is rendered from; "Tender launched"
\* and "Contract awarded" never occur, "Cancelled" is not a canonical status,
\* and one row has a date that does not parse.
ChangeLogRows ==
    [date : DateCells, status : {"Energized", "Under Design", "Cancelled"},
     type : {"School"}, n_facilities : {0} \cup Counts]
    \cup [date : {BadDateCell}, status : {"Energized"}, type : {"School"},
          n_facilities : {2}]

NoCall == [op |-> "none"]

NoSummary == [raised |-> FALSE]

\* The variables a specification does not use keep these values.
IdleCalls == date_dtype = "datetime64" /\ first = NoCall /\ summaries = <<>>

IdleHome ==
    /\ session = [keys |-> {}, authenticated |-> FALSE, df_summary |-> [none |-> TRUE]]
    /\ page = "none"
    /\ rendered = {}
    /\ source = <<>>

IdleTotals == metrics = <<>> /\ totals = [raised |-> "none"]

(***************************************************************************)
(* Specification of the summary extraction                                 *)
(***************************************************************************)
Init ==
    /\ table \in TablesOf(SummaryRows, MaxRows)
    /\ call = NoCall
    /\ summary = NoSummary
    /\ change_log = <<>>
    /\ IdleCalls /\ IdleHome /\ IdleTotals

\* One call extract_facility_summary(table, facility_type, targets). The
\* function reads nothing but its arguments, so a behaviour holds one call.
ExtractFacilitySummaryCall ==
    \E facility_type \in FacilityTypeArgs, targets \in TargetMaps :
        /\ call = NoCall
        /\ call' = [op |-> "extract_facility_summary",
                    facility_type |-> facility_type, targets |-> targets]
        /\ summary' = ExtractFacilitySummary(table, facility_type, targets)
        /\ UNCHANGED <<table, change_log, callsVars, homeVars, totalsVars>>

Next == ExtractFacilitySummaryCall

Spec == Init /\ [][Next]_vars

(***************************************************************************)
(* Specification of repeated calls on a table the caller keeps             *)
(***************************************************************************)
\* Rows of the table the caller keeps: School rows on two dates, a Clinic row
\* for the type filter to exclude, a row with a missing date, and a row whose
\* date text does not parse.
CallsRows ==
    [date : {<<2024, 1, 1>>, <<2024, 2, 1>>}, status : {"Energized", "Under Design"},
     type : {"School"}, n_facilities : {2}]
    \cup [date : {<<2024, 2, 1>>}, status : {"Energized"}, type : {"Clinic"},
          n_facilities : {1}]
    \cup [date : {<<>>, BadDateCell}, status : {"Energized"}, type : {"School"},
          n_facilities : {1}]

CallsTypeArgs == {"Total", "School", "school", "Clinic"}

CallsTargets ==
    {HomeTargets,
     [k \in {"School", "Total"} |-> IF k = "School" THEN 3 ELSE 16],
     [k \in {"Total"} |-> 3]}

\* The caller's table after df["date"] = pd.to_datetime(df["date"]) has been
\* applied to it rather than to a copy: the column is datetime64, or the
\* table is as it was when the conversion raises.
TableCoercedInPlace(tbl, facility_type) ==
    IF ToDatetimeRaises(tbl.rows) THEN tbl
    ELSE [rows |-> tbl.rows, date_dtype |-> "datetime64"]

\* The caller's table after the type filter has dropped its rows in place.
TableFilteredInPlace(tbl, facility_type) ==
    IF ToDatetimeRaises(tbl.rows) THEN tbl
    ELSE [tbl EXCEPT !.rows = FilterByType(tbl.rows, facility_type)]

\* The caller's table after extract_facility_summary(tbl, ...): the function
\* rebinds df to tbl.copy() before it assigns the date column and filters,
\* so every write goes to the copy.
TableAfterExtract(tbl, facility_type) == tbl

FACILITY_TITLE_MAP ==
    [ftype \in {"School", "Clinic", "Well", "Vaccine"} |->
        CASE ftype = "School" -> "Educational Facilities"
          [] ftype = "Clinic" -> "Health Facilities"
          [] ftype = "Well" -> "Water Facilities"
          [] ftype = "Vaccine" -> "Vaccination Facilities"]

\* extract_all_facility_summaries(df, targets): one summary per facility type.
ExtractAllFacilitySummaries(df, targets) ==
    [ftype \in {"School", "Clinic", "Well", "Vaccine"} |->
        ExtractFacilitySummary(df, ftype, targets)
        @@ [title |-> FACILITY_TITLE_MAP[ftype]]]

InitCalls ==
    /\ table \in TablesOf(CallsRows, MaxRows)
    /\ date_dtype \in {"object", "datetime64"}
    /\ date_dtype = "datetime64" => ~ToDatetimeRaises(table)
    /\ call = NoCall
    /\ summary = NoSummary
    /\ change_log = <<>>
    /\ first = NoCall
    /\ summaries = <<>>
    /\ IdleHome /\ IdleTotals

\* One more call extract_facility_summary(table, facility_type, targets) on
\* the table the caller keeps. The first call that is remembered is kept in
\* first, with whether a call has been made since.
RepeatExtractFacilitySummary ==
    \E facility_type \in CallsTypeArgs, targets \in CallsTargets, remember \in BOOLEAN :
        LET result == ExtractFacilitySummary(table, facility_type, targets)
            after == TableAfterExtract([rows |-> table, date_dtype |-> date_dtype],
                                       facility_type)
            this == [op |-> "extract_facility_summary",
                     facility_type |-> facility_type, targets |-> targets]
        IN  /\ call.op # "extract_all_facility_summaries"
            /\ call' = this
            /\ summary' = result
            /\ table' = after.rows
            /\ date_dtype' = after.date_dtype
            /\ first' = IF first # NoCall THEN [first EXCEPT !.later = TRUE]
                         ELSE IF remember
                              THEN [call |-> this, summary |-> result, later |-> FALSE]
                              ELSE NoCall
            /\ UNCHANGED <<change_log, summaries, homeVars, totalsVars>>

\* One call extract_all_facility_summaries(table, targets).
ExtractAllFacilitySummariesCall ==
    \E targets \in CallsTargets :
        /\ call = NoCall
        /\ ~ToDatetimeRaises(table)
        /\ call' = [op |-> "extract_all_facility_summaries", targets |-> targets]
        /\ summaries' = ExtractAllFacilitySummaries(table, targets)
        /\ UNCHANGED <<table, date_dtype, summary, change_log, first, homeVars, totalsVars>>

\* The call raises on a date text that does not parse, and returns nothing.
ExtractAllFacilitySummariesRaises ==
    \E targets \in CallsTargets :
        /\ call = NoCall
        /\ ToDatetimeRaises(table)
        /\ call' = [op |-> "extract_all_facility_summaries", targets |-> targets]
        /\ UNCHANGED <<table, date_dtype, summary, change_log, first, summaries,
                       homeVars, totalsVars>>

NextCalls ==
    \/ RepeatExtractFacilitySummary
    \/ ExtractAllFacilitySummariesCall
    \/ ExtractAllFacilitySummariesRaises

SpecCalls == InitCalls /\ [][NextCalls]_vars

(***************************************************************************)
(* Beneficiary and capacity totals                                         *)
(***************************************************************************)
\* The optional numeric columns of the data file.
OptionalColumns ==
    {"total_beneficiaries", "female_beneficiaries", "male_beneficiaries",
     "solar_capacity_kw", "storage_capacity_kwh"}

\* A cell of an optional column is <<v>> for the whole number v, <<>> when
\* blank, and TextCell when it holds text that is not a number.
TextCell == <<0, 0>>

\* pd.to_datetime(..., errors="coerce") assigned to the date column: a date
\* stays the calendar date it spells, every other cell becomes NaT (<<>>).
CoerceDateColumn(rows) ==
    [i \in 1..Len(rows) |->
        [rows[i] EXCEPT !.date = IF IsDate(rows[i].date) THEN rows[i].date ELSE <<>>]]

\* df["date"].max(): the latest parsed date, NaT when there is none.
MaxDate(rows) ==
    LET ds == {ToDatetimeCoerce(rows[i].date) : i \in 1..Len(rows)} \ {NaT}
    IN  IF ds = {} THEN NaT ELSE CHOOSE d \in ds : \A e \in ds : e <= d

\* df[df["date"] == latest_date], then the rows whose status is energized.
LatestEnergized(rows) ==
    LET latest_date == MaxDate(rows)
    IN  SelectSeq(rows, LAMBDA r : /\ latest_date # NaT
                                   /\ ToDatetimeCoerce(r.date) = latest_date
                                   /\ Lower(r.status) = "energized")

RECURSIVE NumericSum(_, _)
\* The numbers of a column added up, blank and text cells counting 0:
\* pd.to_numeric(errors="coerce").fillna(0).sum(), and .sum() of a column
\* read as numbers.
NumericSum(rows, col) ==
    IF rows = <<>> THEN 0
    ELSE (IF Len(Head(rows).cells[col]) = 1 THEN Head(rows).cells[col][1] ELSE 0)
         + NumericSum(Tail(rows), col)

RECURSIVE ConcatDigits(_, _, _)
\* The number the texts of the number cells spell when written one after
\* the other (each number of the model is one digit).
ConcatDigits(rows, col, acc) ==
    IF rows = <<>> THEN acc
    ELSE ConcatDigits(Tail(rows), col,
            IF Len(Head(rows).cells[col]) = 1
            THEN 10 * acc + Head(rows).cells[col][1] ELSE acc)

\* energized_df[col].sum(). read_csv reads a column with a text cell as
\* strings, and the sum of strings is their concatenation: literal says
\* whether int() can read it, value is the number it then gives.
ColumnSum(selected, all, col) ==
    LET isObject == \E i \in 1..Len(all) : all[i].cells[col] = TextCell
        present == SelectSeq(selected, LAMBDA r : r.cells[col] # <<>>)
    IN  IF ~isObject \/ present = <<>>
        THEN [kind |-> "number", literal |-> TRUE, value |-> NumericSum(selected, col)]
        ELSE [kind |-> "str",
              literal |-> \A i \in 1..Len(present) : present[i].cells[col] # TextCell,
              value |-> ConcatDigits(present, col, 0)]

\* render_summary_statistics(df): the date column is assigned on df itself,
\* the four sums are taken, then the four metrics are rendered in order.
RenderSummaryStatistics(df) ==
    LET rows == CoerceDateColumn(df.rows)
        energized_df == LatestEnergized(rows)
        summed == <<"total_beneficiaries", "solar_capacity_kw", "storage_capacity_kwh">>
        total_beneficiaries == ColumnSum(energized_df, rows, "total_beneficiaries")
        total_solar_kw == ColumnSum(energized_df, rows, "solar_capacity_kw")
        total_storage_kwh == ColumnSum(energized_df, rows, "storage_capacity_kwh")
        a == [n_facilities |-> SumN(energized_df)]
        b == a @@ [total_beneficiaries |-> total_beneficiaries.value]
        c == b @@ [solar_capacity_kw |-> total_solar_kw.value]
        d == c @@ [storage_capacity_kwh |-> total_storage_kwh.value]
        after == [df EXCEPT !.rows = rows, !.date_dtype = "datetime64"]
    IN  IF \E i \in 1..3 : summed[i] \notin df.columns
        THEN [df |-> after, raised |-> "KeyError", shown |-> <<>>]
        ELSE IF ~total_beneficiaries.literal
        THEN [df |-> after, raised |-> "ValueError", shown |-> a]
        ELSE IF total_solar_kw.kind = "str"
        THEN [df |-> after, raised |-> "ValueError", shown |-> b]
        ELSE IF total_storage_kwh.kind = "str"
        THEN [df |-> after, raised |-> "ValueError", shown |-> c]
        ELSE [df |-> after, raised |-> "none", shown |-> d]

\* safe_sum(df, col) of the data explorer.
SafeSum(df, columns, col) == IF col \notin columns THEN 0 ELSE NumericSum(df, col)

\* The sidebar of the data explorer: the file loaded, the latest snapshot,
\* its facility counts and its totals of the optional columns.
ExplorerSidebar(file) ==
    LET df == LoadFacilitySummary(file.rows)
        df_latest == SelectSeq(df, LAMBDA r : r.date = MaxDate(file.rows))
        energized_df == SelectSeq(df_latest, LAMBDA r : Lower(r.status) = "energized")
    IN  [total |-> SumN(df_latest), energized |-> SumN(energized_df)]
        @@ [col \in OptionalColumns |-> SafeSum(energized_df, file.columns, col)]

\* What formatting latest_date in the sidebar caption does when the file has
\* no valid date and latest_date is NaT: pandas decides, so either.
CaptionOutcomes(file) ==
    IF MaxDate(file.rows) = NaT THEN {"none", "ValueError"} ELSE {"none"}

\* The cells of one row under the optional columns.
AllNumbers ==
    [col \in OptionalColumns |->
        CASE col = "total_beneficiaries" -> <<5>>
          [] col = "female_beneficiaries" -> <<2>>
          [] col = "male_beneficiaries" -> <<3>>
          [] col = "solar_capacity_kw" -> <<1>>
          [] col = "storage_capacity_kwh" -> <<4>>]

CellProfiles ==
    {AllNumbers,
     [AllNumbers EXCEPT !["total_beneficiaries"] = TextCell],
     [AllNumbers EXCEPT !["solar_capacity_kw"] = TextCell],
     [AllNumbers EXCEPT !["storage_capacity_kwh"] = <<>>]}

\* Rows of the table the totals are taken from: energized rows on the latest
\* date under every profile, and an earlier and a not energized row.
MetricsRows ==
    [date : {<<2024, 2, 1>>}, status : {"Energized"}, type : {"School"},
     n_facilities : {1}, cells : CellProfiles]
    \cup [date : {<<2024, 1, 1>>}, status : {"Energized"}, type : {"School"},
          n_facilities : {1},
          cells : {AllNumbers, [AllNumbers EXCEPT !["total_beneficiaries"] = TextCell]}]
    \cup [date : {<<2024, 2, 1>>}, status : {"Under Design"}, type : {"School"},
          n_facilities : {1}, cells : {AllNumbers}]

\* The optional columns a data file has: all, none, or all but one.
ColumnSets == {OptionalColumns, {}} \cup {OptionalColumns \ {col} : col \in OptionalColumns}

NoTotals == [raised |-> "none"]

InitTotals ==
    /\ \E rows \in TablesOf(MetricsRows, MaxRows), columns \in ColumnSets :
          metrics = [rows |-> rows, date_dtype |-> "object", columns |-> columns]
    /\ totals = NoTotals
    /\ call = NoCall
    /\ table = <<>>
    /\ summary = NoSummary
    /\ change_log = <<>>
    /\ IdleCalls /\ IdleHome

\* One call render_summary_statistics(metrics), as Home.py makes it.
RenderSummaryStatisticsCall ==
    LET result == RenderSummaryStatistics(metrics)
    IN  /\ call = NoCall
        /\ call' = [op |-> "render_summary_statistics"]
        /\ metrics' = result.df
        /\ totals' = [raised |-> result.raised, shown |-> result.shown]
        /\ UNCHANGED <<table, summary, change_log, callsVars, homeVars>>

\* One run of the data explorer down to its sidebar, on the same data file.
ExplorerSidebarRun ==
    \E outcome \in CaptionOutcomes(metrics) :
        /\ call = NoCall
        /\ call' = [op |-> "0_Facilities_Data_Explorer"]
        /\ totals' = IF outcome = "none"
                      THEN [raised |-> "none", shown |-> ExplorerSidebar(metrics)]
                      ELSE [raised |-> outcome, shown |-> <<>>]
        /\ UNCHANGED <<metrics, table, summary, change_log, callsVars, homeVars>>

NextTotals == RenderSummaryStatisticsCall \/ ExplorerSidebarRun

SpecTotals == InitTotals /\ [][NextTotals]_vars

(***************************************************************************)
(* A browser session: Home.py and pages/0_Facilities_Data_Explorer.py      *)
(***************************************************************************)
PASSWORD == "yeeap2025"

\* What the visitor may have typed in the password box.
PasswordInputs == {PASSWORD, "letmein"}

\* Python's None where a table is expected.
NoneValue == [none |-> TRUE]

\* st.session_state of a new session: no key set. keys holds the keys that
\* are set; targets, when set, is HomeTargets.
NoSession == [keys |-> {}, authenticated |-> FALSE, df_summary |-> NoneValue]

\* What the pages render that is facility data.
FacilityData ==
    {"summary_statistics", "facility_dashboard", "sidebar_summary", "change_log",
     "rollout_chart", "map", "latest_snapshot"}

\* load_data(path): exists and suffix are those of the path, contents the
\* table pd.read_csv or pd.read_excel reads from it. The function reports
\* with st.error and returns None; it has no raise.
LoadData(exists, suffix, contents) ==
    IF ~exists
    THEN [returned |-> NoneValue, error |-> "File not found", raised |-> "none"]
    ELSE IF suffix \in {".csv", ".xlsx", ".xls"}
    THEN [returned |-> [none |-> FALSE] @@ contents, error |-> "", raised |-> "none"]
    ELSE [returned |-> NoneValue, error |-> "Unsupported file type", raised |-> "none"]

\* The table read from the data file of Home.py and of the data explorer.
SourceContents ==
    [rows |-> source.rows, date_dtype |-> "object", columns |-> source.columns]

\* Home.py from line 46 on, with st.session_state s: the table loaded once
\* per session, the targets set, the date column of the session's table
\* coerced in place, the summaries extracted, the statistics and the
\* dashboard rendered.
HomeMain(s) ==
    LET loads == "df_summary" \notin s.keys
        load == LoadData(source.exists, ".csv", SourceContents)
        s1 == IF loads
              THEN [s EXCEPT !.keys = @ \cup {"df_summary"}, !.df_summary = load.returned]
              ELSE s
        s2 == [s1 EXCEPT !.keys = @ \cup {"targets"}]
        shown == IF loads /\ load.error # "" THEN {load.error} ELSE {}
    IN  IF s2.df_summary.none
        THEN [session |-> s2, rendered |-> shown, exception |-> "TypeError",
              loaded |-> loads, summaries |-> <<>>]
        ELSE LET df_summary == [s2.df_summary EXCEPT !.rows = CoerceDateColumn(@),
                                                     !.date_dtype = "datetime64"]
                 all == ExtractAllFacilitySummaries(df_summary.rows, HomeTargets)
                 stats == RenderSummaryStatistics(df_summary)
                 s3 == [s2 EXCEPT !.df_summary = stats.df]
             IN  IF stats.raised # "none"
                 THEN [session |-> s3, rendered |-> {}, exception |-> stats.raised,
                       loaded |-> loads, summaries |-> all]
                 ELSE IF \E ftype \in DOMAIN all : all[ftype].percent > 1000
                 THEN [session |-> s3, rendered |-> {"summary_statistics"},
                       exception |-> "StreamlitAPIException",
                       loaded |-> loads, summaries |-> all]
                 ELSE [session |-> s3,
                       rendered |-> {"summary_statistics", "facility_dashboard"},
                       exception |-> "none", loaded |-> loads, summaries |-> all]

\* Rows of the data file: School rows on two dates, a Clinic row, and a row
\* whose date does not parse; every optional column holds numbers.
HomeRows ==
    [date : {<<2024, 1, 1>>, <<2024, 2, 1>>}, status : {"Energized", "Under Design"},
     type : {"School"}, n_facilities : {1}, cells : {AllNumbers}]
    \cup [date : {<<2024, 2, 1>>}, status : {"Energized"}, type : {"Clinic"},
          n_facilities : {2}, cells : {AllNumbers}]
    \cup [date : {BadDateCell}, status : {"Energized"}, type : {"School"},
          n_facilities : {2}, cells : {AllNumbers}]

InitHome ==
    /\ \/ source = [exists |-> FALSE, rows |-> <<>>, columns |-> OptionalColumns]
       \/ \E rows \in TablesOf(HomeRows, MaxRows) :
             source = [exists |-> TRUE, rows |-> rows, columns |-> OptionalColumns]
    /\ session = NoSession
    /\ page = "none"
    /\ rendered = {}
    /\ call = NoCall
    /\ table = <<>>
    /\ summary = NoSummary
    /\ change_log = <<>>
    /\ IdleCalls /\ IdleTotals

\* One run of Home.py, with what is in the password box and whether the
\* Login button was pressed. A correct login sets the flag and reruns the
\* script, which then passes the gate.
HomeRun ==
    \E pwd \in PasswordInputs, login \in BOOLEAN :
        LET s0 == IF "authenticated" \in session.keys THEN session
                  ELSE [session EXCEPT !.keys = @ \cup {"authenticated"},
                                       !.authenticated = FALSE]
            was == "authenticated" \in session.keys /\ session.authenticated
            this == [op |-> "Home", was_authenticated |-> was,
                     login |-> ~s0.authenticated /\ login, pwd |-> pwd]
            main == HomeMain([s0 EXCEPT !.authenticated = TRUE])
        IN  /\ page' = "Home"
            /\ IF ~s0.authenticated /\ ~(login /\ pwd = PASSWORD)
               THEN /\ session' = s0
                    /\ rendered' = {"login"} \cup
                                    (IF login THEN {"Incorrect password"} ELSE {})
                    /\ call' = this @@ [exception |-> "none", loaded |-> FALSE]
                    /\ summaries' = <<>>
               ELSE /\ session' = main.session
                    /\ rendered' = main.rendered
                    /\ call' = this @@ [exception |-> main.exception,
                                        loaded |-> main.loaded]
                    /\ summaries' = main.summaries
            /\ UNCHANGED <<table, summary, change_log, date_dtype, first, source,
                           totalsVars>>

\* One run of the data explorer page while the data file is missing:
\* pd.read_csv raises on line 13.
ExplorerRunNoFile ==
    /\ ~source.exists
    /\ page' = "0_Facilities_Data_Explorer"
    /\ rendered' = {}
    /\ call' = [op |-> "0_Facilities_Data_Explorer",
                was_authenticated |-> "authenticated" \in session.keys /\ session.authenticated,
                exception |-> "FileNotFoundError"]
    /\ change_log' = <<>>
    /\ UNCHANGED <<session, table, summary, callsVars, source, totalsVars>>

\* One run of the data explorer page, reached by the button of Home.py or
\* by its address: the page has no test of st.session_state.authenticated.
\* The sidebar, the change log for the two dates picked, the rollout chart
\* (which sets the targets), the map and the latest snapshot are rendered.
ExplorerRun ==
    LET df == LoadFacilitySummary(source.rows)
        available_dates == AvailableDates(df)
        was == "authenticated" \in session.keys /\ session.authenticated
        this == [op |-> "0_Facilities_Data_Explorer", was_authenticated |-> was]
        rest == {"rollout_chart", "map", "latest_snapshot"}
    IN  /\ source.exists
        /\ page' = "0_Facilities_Data_Explorer"
        /\ \E outcome \in CaptionOutcomes(source) :
              IF outcome # "none"
              THEN /\ rendered' = {}
                   /\ call' = this @@ [exception |-> outcome]
                   /\ change_log' = <<>>
                   /\ session' = session
              ELSE /\ session' = [session EXCEPT !.keys = @ \cup {"targets"}]
                   /\ IF Len(available_dates) < 1
                      THEN /\ rendered' = {"sidebar_summary", "No valid date entries"}
                                           \cup rest
                           /\ call' = this @@ [exception |-> "none", warning |-> TRUE]
                           /\ change_log' = <<>>
                      ELSE \E i \in 1..Len(available_dates), j \in 1..Len(available_dates) :
                              /\ rendered' = {"sidebar_summary", "change_log"} \cup rest
                              /\ call' = this @@ [exception |-> "none", warning |-> FALSE,
                                                  date_latest |-> available_dates[i],
                                                  date_before |-> available_dates[j]]
                              /\ change_log' = Reindex(df, available_dates[j],
                                                       available_dates[i])
        /\ UNCHANGED <<table, summary, callsVars, source, totalsVars>>

\* load_data(path) called with a path of its own, before any page has run.
LoadDataCall ==
    \E exists \in BOOLEAN, suffix \in {".csv", ".xlsx", ".txt"} :
        /\ call = NoCall
        /\ source.exists
        /\ call' = [op |-> "load_data", exists |-> exists, suffix |-> suffix,
                    result |-> LoadData(exists, suffix, SourceContents)]
        /\ UNCHANGED <<session, page, rendered, source, table, summary, change_log,
                       callsVars, totalsVars>>

NextHome == HomeRun \/ ExplorerRunNoFile \/ ExplorerRun \/ LoadDataCall

SpecHome == InitHome /\ [][NextHome]_vars

(***************************************************************************)
(* Specification of the change log                                         *)
(***************************************************************************)
InitChangeLog ==
    /\ table \in TablesOf(ChangeLogRows, MaxRows)
    /\ call = NoCall
    /\ summary = NoSummary
    /\ change_log = <<>>
    /\ IdleCalls /\ IdleHome /\ IdleTotals

\* render_facility_change_log() on a data file without a valid date: the
\* warning, and no change log.
RenderFacilityChangeLogNoDates ==
    /\ call = NoCall
    /\ Len(AvailableDates(LoadFacilitySummary(table))) < 1
    /\ call' = [op |-> "render_facility_change_log", warning |-> TRUE]
    /\ change_log' = <<>>
    /\ UNCHANGED <<table, summary, callsVars, homeVars, totalsVars>>

\* render_facility_change_log() with the two dates picked in the select boxes.
RenderFacilityChangeLog ==
    LET df == LoadFacilitySummary(table)
        available_dates == AvailableDates(df)
    IN  /\ call = NoCall
        /\ Len(available_dates) >= 1
        /\ \E i \in 1..Len(available_dates), j \in 1..Len(available_dates) :
              /\ call' = [op |-> "render_facility_change_log", warning |-> FALSE,
                          date_latest |-> available_dates[i],
                          date_before |-> available_dates[j]]
              /\ change_log' = Reindex(df, available_dates[j], available_dates[i])
        /\ UNCHANGED <<table, summary, callsVars, homeVars, totalsVars>>

NextChangeLog == RenderFacilityChangeLogNoDates \/ RenderFacilityChangeLog

SpecChangeLog == InitChangeLog /\ [][NextChangeLog]_vars

(***************************************************************************)
(* Properties of extract_facility_summary (checked under Spec)             *)
(***************************************************************************)
Extracted == call.op = "extract_facility_summary"

\* The rows the facility type selects: all of them for "Total", else the
\* ones whose type is the facility type, letter case aside.
TypeRows ==
    {i \in 1..Len(table) :
        \/ call.facility_type \in {"Total", "total"}
        \/ Lower(table[i].type) = Lower(call.facility_type)}

\* The slice: the selected rows that have a date.
SliceRows == {i \in TypeRows : table[i].date # <<>>}

\* The distinct dates observed in the slice.
ObservedDates == {table[i].date : i \in SliceRows}

\* Calendar order of two date cells.
Earlier(a, b) ==
    \/ a[1] < b[1]
    \/ a[1] = b[1] /\ a[2] < b[2]
    \/ a[1] = b[1] /\ a[2] = b[2] /\ a[3] < b[3]

LatestDate == CHOOSE d \in ObservedDates : \A e \in ObservedDates : e = d \/ Earlier(e, d)

SecondLatestDate ==
    CHOOSE d \in ObservedDates \ {LatestDate} :
        \A e \in ObservedDates \ {LatestDate} : e = d \/ Earlier(e, d)

RECURSIVE TotalOver(_)
\* The sum of n_facilities over a set of rows of the table.
TotalOver(I) ==
    IF I = {} THEN 0
    ELSE LET i == CHOOSE j \in I : TRUE
         IN  table[i].n_facilities + TotalOver(I \ {i})

EnergizedAt(d) ==
    TotalOver({i \in SliceRows : table[i].date = d /\ table[i].status = "Energized"})

Abs(x) == IF x < 0 THEN -x ELSE x

\* C3: a resolved target of 0 gives percent = 0, without an exception,
\* whatever the table and the facility type.
C3_ZeroTargetGuard ==
    (Extracted /\ TargetLookup(call.targets, call.facility_type) = 0)
        => (~summary.raised /\ summary.target = 0 /\ summary.percent = 0)

C3_Witness ==
    /\ Extracted
    /\ ~summary.raised
    /\ summary.target = 0
    /\ summary.energized > 0

\* C4: the reported target is targets[facility_type] when that key is present,
\* else targets["Total"] when that key is present, else 0, and the lookup
\* raises in none of the three cases.
C4_FallbackTarget ==
    Extracted =>
        /\ ~summary.raised
        /\ call.facility_type \in DOMAIN call.targets
              => summary.target = call.targets[call.facility_type]
        /\ (call.facility_type \notin DOMAIN call.targets /\ "Total" \in DOMAIN call.targets)
              => summary.target = call.targets["Total"]
        /\ (call.facility_type \notin DOMAIN call.targets /\ "Total" \notin DOMAIN call.targets)
              => summary.target = 0

C4_Witness ==
    /\ Extracted
    /\ call.facility_type \notin DOMAIN call.targets
    /\ "Total" \in DOMAIN call.targets
    /\ "School" \in DOMAIN call.targets
    /\ call.targets["School"] # call.targets["Total"]
    /\ summary.target = call.targets["Total"]
    /\ summary.target > 0

\* C5: dates and energized_trend have the same length, one element per
\* distinct observed date of the slice, and dates is strictly ascending,
\* also when the slice never holds the status Energized.
C5_TrendDates ==
    Extracted =>
        /\ Len(summary.dates) = Len(summary.energized_trend)
        /\ Len(summary.dates) = Cardinality(ObservedDates)
        /\ {summary.dates[i] : i \in 1..Len(summary.dates)} = ObservedDates
        /\ \A i \in 1..Len(summary.dates) : \A j \in 1..Len(summary.dates) :
              i < j => StrLess(summary.dates[i], summary.dates[j])

C5_Witness ==
    /\ Extracted
    /\ Cardinality(ObservedDates) >= 2
    /\ Cardinality(SliceRows) > Cardinality(ObservedDates)
    /\ \A i \in SliceRows : table[i].status # "Energized"
    /\ Len(summary.dates) = 2
    /\ summary.energized_trend = <<0, 0>>

\* C6: increase is the energized count at the latest date minus the one at
\* the second-latest date of the slice when the slice has at least two
\* distinct dates, and 0 when it has fewer.
C6_Increase ==
    Extracted =>
        /\ Cardinality(ObservedDates) >= 2
              => summary.increase = EnergizedAt(LatestDate) - EnergizedAt(SecondLatestDate)
        /\ Cardinality(ObservedDates) < 2 => summary.increase = 0

C6_Witness ==
    /\ Extracted
    /\ Cardinality(ObservedDates) = 3
    /\ summary.increase < 0

\* C7: energized is the sum of n_facilities over the rows of the slice with
\* status Energized at the latest date of the slice; rows with the same
\* date, type and status are added together.
C7_Energized ==
    Extracted =>
        summary.energized =
            IF ObservedDates = {} THEN 0 ELSE EnergizedAt(LatestDate)

C7_Witness ==
    /\ Extracted
    /\ call.facility_type = "School"
    /\ Cardinality(ObservedDates) >= 2
    /\ \E i \in SliceRows : \E j \in SliceRows :
          /\ i # j
          /\ table[i].date = LatestDate /\ table[j].date = LatestDate
          /\ table[i].status = "Energized" /\ table[j].status = "Energized"
          /\ table[i].type = table[j].type
          /\ summary.energized = table[i].n_facilities + table[j].n_facilities

\* C8: in_progress is the sum of n_facilities over the rows of the slice at
\* its latest date whose status is not Energized, and planned is
\* energized + in_progress, the total of all rows of the slice at that date.
C8_InProgressPlanned ==
    Extracted =>
        /\ summary.in_progress =
              IF ObservedDates = {} THEN 0
              ELSE TotalOver({i \in SliceRows :
                        table[i].date = LatestDate /\ table[i].status # "Energized"})
        /\ summary.planned = summary.energized + summary.in_progress
        /\ summary.planned =
              IF ObservedDates = {} THEN 0
              ELSE TotalOver({i \in SliceRows : table[i].date = LatestDate})

C8_Witness ==
    /\ Extracted
    /\ summary.energized > 0
    /\ \E i \in SliceRows : table[i].date = LatestDate /\ table[i].status = "Cancelled"
    /\ \E i \in SliceRows : table[i].date = LatestDate /\ table[i].status = "Under Design"
    /\ summary.planned > summary.in_progress

\* C9 as stated: with a target above 0, percent equals energized / target.
C9_ExactQuotient ==
    (Extracted /\ summary.target > 0)
        => summary.percent * summary.target = 1000 * summary.energized

\* C9 as amended: with a target above 0, percent is energized / target
\* rounded to three decimals: it lies within 0.0005 of the quotient, and is
\* the quotient itself when that has at most three decimals (15 of 100 is
\* 0.15).
C9_RoundedQuotient ==
    (Extracted /\ summary.target > 0) =>
        /\ 2 * Abs(1000 * summary.energized - summary.percent * summary.target)
              <= summary.target
        /\ (1000 * summary.energized) % summary.target = 0
              => summary.percent * summary.target = 1000 * summary.energized

C9_Witness ==
    /\ Extracted
    /\ summary.target = 3
    /\ summary.energized = 2
    /\ summary.percent = 667

\* C10: a type filter that selects no row (unknown type, or empty table)
\* gives, without an exception, energized, in_progress, planned, percent and
\* increase of 0 and empty energized_trend and dates.
C10_EmptySlice ==
    (Extracted /\ TypeRows = {}) =>
        /\ ~summary.raised
        /\ summary.energized = 0
        /\ summary.in_progress = 0
        /\ summary.planned = 0
        /\ summary.percent = 0
        /\ summary.increase = 0
        /\ summary.energized_trend = <<>>
        /\ summary.dates = <<>>

C10_Witness ==
    /\ Extracted
    /\ \E i \in 1..Len(table) : table[i].date # <<>> /\ table[i].status = "Energized"
    /\ TypeRows = {}
    /\ summary.target > 0
    /\ summary.dates = <<>>

(***************************************************************************)
(* Properties of the change log (checked under SpecChangeLog)              *)
(***************************************************************************)
Rendered == call.op = "render_facility_change_log" /\ ~call.warning

\* The rows of the data file at a selected date (a parsed date).
RowsAt(d) == {i \in 1..Len(table) : ToDatetimeCoerce(table[i].date) = d}

\* C1: for any table and any two selected dates the change log has exactly
\* four entries, Under Design, Tender launched, Contract awarded, Energized
\* in this order, whatever statuses the table holds at either date.
C1_FourEntriesInOrder ==
    Rendered =>
        /\ Len(change_log) = 4
        /\ change_log[1].status = "Under Design"
        /\ change_log[2].status = "Tender launched"
        /\ change_log[3].status = "Contract awarded"
        /\ change_log[4].status = "Energized"

C1_Witness ==
    /\ Rendered
    /\ call.date_latest # call.date_before
    /\ \E i \in RowsAt(call.date_latest) : table[i].status = "Cancelled"
    /\ \A i \in RowsAt(call.date_latest) \cup RowsAt(call.date_before) :
          table[i].status # "Energized"
    /\ \E i \in RowsAt(call.date_before) : table[i].status = "Under Design"
    /\ Len(change_log) = 4

\* C2 as stated: a canonical status without a row at either selected date
\* appears with previous_count = 0, current_count = 0 and change = 0.
C2_AbsentStatusIsZero ==
    Rendered =>
        \A k \in 1..Len(change_log) :
            (\A i \in RowsAt(call.date_latest) \cup RowsAt(call.date_before) :
                 table[i].status # change_log[k].status)
            => /\ change_log[k].Previous = <<0>>
               /\ change_log[k].Current = <<0>>
               /\ change_log[k].Change = <<0>>

C12_SameArgumentsSameSummary ==
    (first # NoCall /\ Extracted /\ call = first.call) => summary = first.summary

\* A remembered call that returned counts, other calls after it, and now a
\* call with its arguments again.
C12_Witness ==
    /\ first # NoCall
    /\ first.later
    /\ Extracted
    /\ call = first.call
    /\ call.facility_type = "Total"
    /\ ~summary.raised
    /\ summary.energized = 3
    /\ summary = first.summary

\* C13: a call of extract_facility_summary leaves the caller's table as it
\* was: the same rows, the same date cells, the same dtype of the date
\* column, for every facility type.
C13_InputTableUnchanged ==
    [][(Extracted' /\ call' # call) => (table' = table /\ date_dtype' = date_dtype)]_vars

\* A call that filters rows out of a table whose date column is text has
\* returned, and the table still holds the excluded row and the text column.
C13_Witness ==
    /\ Extracted
    /\ call.facility_type = "School"
    /\ ~summary.raised
    /\ summary.energized = 2
    /\ date_dtype = "object"
    /\ \E i \in 1..Len(table) : table[i].type = "Clinic"

\* C18 as stated: two calls of extract_facility_summary on the same table and
\* targets whose facility types differ only in letter case return the same
\* target, energized, in_progress, planned, percent, increase,
\* energized_trend and dates.
C18_CaseOnlySameSummary ==
    (/\ first # NoCall
     /\ Extracted
     /\ call.targets = first.call.targets
     /\ call.facility_type # first.call.facility_type
     /\ Lower(call.facility_type) = Lower(first.call.facility_type)
     /\ ~summary.raised)
    => /\ summary.target = first.summary.target
       /\ summary.energized = first.summary.energized
       /\ summary.in_progress = first.summary.in_progress
       /\ summary.planned = first.summary.planned
       /\ summary.percent = first.summary.percent
       /\ summary.increase = first.summary.increase
       /\ summary.energized_trend = first.summary.energized_trend
       /\ summary.dates = first.summary.dates

\* C19 as stated: the percent of every summary extract_all_facility_summaries
\* returns lies between 0 and 1 (held in thousandths: 0 to 1000).
C19_PercentInUnitRange ==
    (call.op = "extract_all_facility_summaries" /\ summaries # <<>>)
    => \A ftype \in DOMAIN summaries :
          summaries[ftype].percent >= 0 /\ summaries[ftype].percent <= 1000

\* The total of an optional column as C16 states it: the numbers of the
\* column over the energized rows of the latest date, an absent column, a
\* blank cell and a text cell counting 0.
ExpectedTotal(col) ==
    IF col \in metrics.columns THEN NumericSum(LatestEnergized(metrics.rows), col) ELSE 0

\* C16 as stated: every computation of the beneficiary and capacity totals,
\* on the home page and in the data explorer sidebar, counts an absent
\* optional column as 0 and a non-numeric value as 0, and does not fail.
C16_TotalsNeverFail ==
    /\ call.op = "render_summary_statistics" =>
          /\ totals.raised = "none"
          /\ \A col \in {"total_beneficiaries", "solar_capacity_kw", "storage_capacity_kwh"} :
                totals.shown[col] = ExpectedTotal(col)
    /\ (call.op = "0_Facilities_Data_Explorer" /\ MaxDate(metrics.rows) # NaT) =>
          /\ totals.raised = "none"
          /\ \A col \in OptionalColumns : totals.shown[col] = ExpectedTotal(col)

\* The rows of the data file whose date parses.
ValidRows == SelectSeq(source.rows, LAMBDA r : IsDate(r.date))

HomeRan == call.op = "Home" /\ (call.was_authenticated \/ (call.login /\ call.pwd = PASSWORD))

ExplorerRan == call.op = "0_Facilities_Data_Explorer" /\ source.exists

\* C14: a row of the data file whose date does not parse counts in no
\* summary and in no change-log entry, is never a date of a summary nor a
\* date that can be picked, and does not make the page fail: the summaries
\* and the change log are those of the file without such rows.
C14_MalformedRowsExcluded ==
    /\ (HomeRan /\ source.exists) =>
          /\ call.exception = "none"
          /\ summaries = ExtractAllFacilitySummaries(ValidRows, HomeTargets)
          /\ \A ftype \in DOMAIN summaries :
                /\ \A k \in 1..Len(summaries[ftype].dates) :
                      \E i \in 1..Len(ValidRows) :
                          ValidRows[i].date = summaries[ftype].dates[k]
                /\ summaries[ftype].planned <= SumN(ValidRows)
    /\ (ExplorerRan /\ ValidRows # <<>>) =>
          /\ call.exception = "none"
          /\ ~call.warning
          /\ \E i \in 1..Len(ValidRows) :
                call.date_latest = ToDatetimeCoerce(ValidRows[i].date)
          /\ \E i \in 1..Len(ValidRows) :
                call.date_before = ToDatetimeCoerce(ValidRows[i].date)
          /\ change_log = Reindex(ParseDates(ValidRows), call.date_before, call.date_latest)

\* The data file holds one valid energized School row and a row of two
\* energized schools whose date does not parse; the home page has counted
\* one energized school and the change log shows one.
C14_Witness ==
    /\ ExplorerRan
    /\ \E i \in 1..Len(source.rows) : source.rows[i].date = BadDateCell
    /\ call.exception = "none"
    /\ ~call.warning
    /\ change_log[4].Current = <<1>>
    /\ summaries # <<>>
    /\ summaries["School"].energized = 1
    /\ summaries["School"].planned = 1

\* C15 as stated: load_data fails with SourceNotFound on a path that does
\* not exist and with UnsupportedFormat on an extension it does not support,
\* returns no table, and the run of Home.py that loads a missing file stops
\* with that error before any aggregation.
C15_LoadErrorsReachCaller ==
    /\ (call.op = "load_data" /\ ~call.exists) =>
          call.result.raised = "SourceNotFound" /\ call.result.returned.none
    /\ (call.op = "load_data" /\ call.exists /\ call.suffix \notin {".csv", ".xlsx", ".xls"}) =>
          call.result.raised = "UnsupportedFormat" /\ call.result.returned.none
    /\ (HomeRan /\ call.loaded /\ ~source.exists) =>
          call.exception = "SourceNotFound" /\ summaries = <<>>

\* C17 as stated: the table held in st.session_state.df_summary has the date
\* cells and the date dtype of the table load_data returned, after every run
\* of Home.py and every call of render_summary_statistics.
C17_SessionTableAsLoaded ==
    ("df_summary" \in session.keys /\ ~session.df_summary.none) =>
        /\ session.df_summary.date_dtype = SourceContents.date_dtype
        /\ session.df_summary.rows = SourceContents.rows

\* C20 as stated: facility data is on the page only while the session's
\* authenticated flag is true, and a run that finds the flag false leaves
\* it true only when it is a Login submit with the configured password.
C20_DataOnlyWhenAuthenticated ==
    /\ rendered \cap FacilityData # {} =>
          "authenticated" \in session.keys /\ session.authenticated
    /\ (call.op \in {"Home", "0_Facilities_Data_Explorer"}
        /\ ~call.was_authenticated /\ session.authenticated) =>
          call.op = "Home" /\ call.login /\ call.pwd = PASSWORD

====
